---------------------------- MODULE Spec2Model ----------------------------
(***************************************************************************)
(* Model of blender_doc: the FileProcessor worklist traversal, the         *)
(* MetadataStore indices, the LinkRegistry cycle gate and the              *)
(* DigraphBuilder.                                                         *)
(*                                                                         *)
(* Six specifications share the variables:                                 *)
(*   Spec          one run of FileProcessor.process_stack as called by     *)
(*                 process_project (one step per iteration of the loop),   *)
(*                 every call of Blender returning in time                 *)
(*   FairSpec      Spec with weak fairness on the loop                     *)
(*   SpecTimeout   Spec where a call of Blender may exceed its timeout     *)
(*   SpecRegistry  arbitrary sequences of LinkRegistry.add_link calls      *)
(*   SpecStore     arbitrary sequences of MetadataStore.add_entry calls    *)
(*   SpecGraph     the graph builders on any store contents and links      *)
(***************************************************************************)
EXTENDS Integers, Sequences, FiniteSets, TLC

(***************************************************************************)
(* Bounds                                                                  *)
(***************************************************************************)
\* longest seed worklist handed to process_stack
MaxSeed == 2
\* longest dependency list one container returns
MaxDeps == 2
\* total number of references returned by all containers of one run
MaxRefs == 3
\* number of paths the registry specification draws its calls from
MaxRegNodes == 3
\* number of add_entry calls of the store specification
MaxAdds == 3

(***************************************************************************)
(* Paths.  A path is folder components plus a file name (stem, extension). *)
(***************************************************************************)
MkPath(folder, stem, ext) == [folder |-> folder, stem |-> stem, ext |-> ext]

\* the folder handed to process_project, in the resolved absolute form in
\* which the dependency extraction reports paths
root_folder == <<"proj">>

LibD == MkPath(<<"lib">>, "d", "blend")
LibL == MkPath(<<"lib">>, "l", "png")
LibX == MkPath(<<"lib">>, "x", "blend")
LibY == MkPath(<<"lib">>, "y", "blend")
ProjA == MkPath(<<"proj">>, "a", "blend")
ProjN == MkPath(<<"proj">>, "notes", "")
TexM == MkPath(<<"proj", "tex">>, "m", "png")
TexT == MkPath(<<"proj", "tex">>, "t", "PNG")

\* every path of the modelled file system, in the order sorted() gives their
\* string forms
PathSeq == <<LibD, LibL, LibX, LibY, ProjA, ProjN, TexM, TexT>>

Universe == {PathSeq[i] : i \in 1..Len(PathSeq)}

\* what the disk holds at a path: a regular file, a directory, nothing, or
\* a file that is there when its existence is tested and whose stat() raises
\* OSError afterwards (access to it was lost in between)
Disk(p) ==
    IF p = TexM THEN "missing"
    ELSE IF p = LibD THEN "dir"
    ELSE IF p = LibL THEN "unreadable"
    ELSE "file"

\* Path.exists()
Exists(p) == Disk(p) # "missing"

\* Path.is_file()
IsFile(p) == Disk(p) \in {"file", "unreadable"}

\* Path.stat() raises OSError
StatFails(p) == Disk(p) = "unreadable"

\* st_size of a regular file
StSize(p) == Len(p.folder) + (IF p.ext = "blend" THEN 2 ELSE 1)

\* str.lower() on the extensions that occur
Lower(s) == IF s = "PNG" THEN "png" ELSE s

\* FileScanner.LEAF_TYPES
LEAF_TYPES ==
    {"jpg", "jpeg", "png", "tiff", "tif", "exr", "hdr", "bmp", "gif", "webp",
     "mp3", "wav", "flac", "aac", "ogg", "aiff",
     "txt", "md", "rst", "csv", "json", "xml", "yaml", "yml",
     "ttf", "otf", "woff", "woff2",
     "pdf", "obj", "fbx", "usd", "usda", "glb", "gltf"}

\* FileScanner._get_file_type: the lower-cased extension; a name without an
\* extension has no guessable mimetype here and is 'unknown'
GetFileType(p) == IF p.ext # "" THEN Lower(p.ext) ELSE "unknown"

\* Path.relative_to succeeds iff the other path is a prefix by components
IsPrefix(s, t) == Len(s) <= Len(t) /\ \A i \in 1..Len(s) : s[i] = t[i]

\* _is_in_root_folder with a test that never fails (as a comparison that
\* never raises would give)
IsInRootFolder_Always(p) == TRUE

\* FileProcessor._is_in_root_folder
IsInRootFolder(p) == IsPrefix(root_folder, p.folder)

(***************************************************************************)
(* Dictionaries: functions whose domain is the key set.                    *)
(***************************************************************************)
EmptyDict == <<>>

DictGet(d, k, default) == IF k \in DOMAIN d THEN d[k] ELSE default

DictPut(d, k, v) == [x \in (DOMAIN d) \cup {k} |-> IF x = k THEN v ELSE d[x]]

\* None where an object id is expected
None == 0

\* None where a FileEntry record is expected
NoEntry == [absent |-> TRUE]

VARIABLES
    heap,               \* the FileEntry objects, by identity 1..Len(heap)
    store,              \* MetadataStore: _entries, _by_type, _by_folder
    registry,           \* LinkRegistry: _links, _reverse_links, _visited
    processing_stack,   \* the deque handed to process_stack (object ids)
    processed_paths,    \* FileProcessor.processed_paths
    output_list,        \* FileProcessor.output_list (object ids)
    follow_external,    \* FileProcessor.follow_external
    blender_integration,\* TRUE iff a BlenderIntegration was constructed
    pc,                 \* "loop" while process_stack runs, "done" after return
    external_files,     \* history: container path -> the list extraction gave
    placed,             \* history: paths in the order they went on the worklist
    depth,              \* history: discovery depth of each object
    link_calls,         \* history: add_link calls of the last step, with results
    added,              \* history: the add_entry calls made so far (object ids)
    digraph,            \* DigraphBuilder.digraph: nodes and edges with attributes
    timeouts            \* history: container path -> which extraction calls timed out

vars == <<heap, store, registry, processing_stack, processed_paths, output_list,
          follow_external, blender_integration, pc, external_files, placed,
          depth, link_calls, added, digraph, timeouts>>


(***************************************************************************)
(* FileEntry                                                               *)
(***************************************************************************)
\* metadata of a freshly constructed entry: an empty dict
EmptyMetadata == [extract |-> "absent", blend |-> "absent", external_links |-> <<>>]

\* FileEntry(name, folder, size, file_type) with __post_init__
FileEntry(p, size, file_type) ==
    [path |-> p, size |-> size, file_type |-> file_type,
     metadata |-> EmptyMetadata, links |-> <<>>, processed |-> FALSE]

\* dataclass __eq__ on two objects of the heap h: the same object, or equal
\* fields (linked entries compared by identity)
EntryEq(h, i, j) == i = j \/ h[i] = h[j]

\* FileEntry.add_link: append unless an equal entry is already linked
EntryAddLink(h, e, target) ==
    IF \E k \in 1..Len(h[e].links) : EntryEq(h, h[e].links[k], target)
    THEN h
    ELSE [h EXCEPT ![e].links = Append(@, target)]

(***************************************************************************)
(* MetadataStore                                                           *)
(***************************************************************************)
\* MetadataStore.__init__
\* (order is the insertion order of the keys of _entries, which a Python
\* dict keeps and values() follows)
EmptyStore ==
    [entries |-> EmptyDict, order |-> <<>>, by_type |-> EmptyDict,
     by_folder |-> EmptyDict]

\* add_entry that keeps the record already stored for the path (setdefault)
AddEntry_KeepFirst(s, h, id) ==
    [entries |-> IF h[id].path \in DOMAIN s.entries THEN s.entries
                 ELSE DictPut(s.entries, h[id].path, id),
     order |-> IF h[id].path \in DOMAIN s.entries THEN s.order
               ELSE Append(s.order, h[id].path),
     by_type |-> DictPut(s.by_type, h[id].file_type,
                         Append(DictGet(s.by_type, h[id].file_type, <<>>), id)),
     by_folder |-> DictPut(s.by_folder, h[id].path.folder,
                           Append(DictGet(s.by_folder, h[id].path.folder, <<>>), id))]

\* MetadataStore.add_entry of object id of heap h
AddEntry(s, h, id) ==
    [entries |-> DictPut(s.entries, h[id].path, id),
     order |-> IF h[id].path \in DOMAIN s.entries THEN s.order
               ELSE Append(s.order, h[id].path),
     by_type |-> DictPut(s.by_type, h[id].file_type,
                         Append(DictGet(s.by_type, h[id].file_type, <<>>), id)),
     by_folder |-> DictPut(s.by_folder, h[id].path.folder,
                           Append(DictGet(s.by_folder, h[id].path.folder, <<>>), id))]

\* MetadataStore.get_entry
GetEntry(s, p) == DictGet(s.entries, p, None)

\* MetadataStore.get_all_entries: the values of _entries, one per key, in
\* the insertion order of the keys
GetAllEntries(s) == [i \in 1..Len(s.order) |-> s.entries[s.order[i]]]

\* MetadataStore.get_by_type
GetByType(s, file_type) == DictGet(s.by_type, file_type, <<>>)

\* MetadataStore.get_by_folder
GetByFolder(s, folder) == DictGet(s.by_folder, folder, <<>>)

\* MetadataStore.stats()['total_entries']
TotalEntries(s) == Cardinality(DOMAIN s.entries)

\* MetadataStore.stats()['processed_entries'] on the heap h
ProcessedEntries(s, h) == Cardinality({p \in DOMAIN s.entries : h[s.entries[p]].processed})

(***************************************************************************)
(* LinkRegistry                                                            *)
(***************************************************************************)
\* LinkRegistry.__init__
EmptyRegistry == [links |-> EmptyDict, reverse_links |-> EmptyDict, visited |-> {}]

\* LinkRegistry.get_links
GetLinks(r, source) == DictGet(r.links, source, {})

\* LinkRegistry.get_reverse_links
GetReverseLinks(r, target) == DictGet(r.reverse_links, target, {})

\* LinkRegistry._has_path_to: the depth-first search, threading _visited.
\* The neighbours are iterated in the order of a Python set, which is not
\* fixed: the result is the set of outcomes [ret, visited] over all orders.
RECURSIVE HasPathTo(_, _, _, _)
RECURSIVE HasPathLoop(_, _, _, _)
HasPathTo(links, start, goal, visited) ==
    IF start = goal THEN {[ret |-> TRUE, visited |-> visited]}
    ELSE IF start \in visited THEN {[ret |-> FALSE, visited |-> visited]}
    ELSE HasPathLoop(links, DictGet(links, start, {}), goal, visited \cup {start})

\* the for loop of _has_path_to over the neighbours not yet iterated
HasPathLoop(links, rest, goal, visited) ==
    IF rest = {} THEN {[ret |-> FALSE, visited |-> visited]}
    ELSE UNION {UNION {IF o.ret THEN {o}
                       ELSE HasPathLoop(links, rest \ {n}, goal, o.visited)
                       : o \in HasPathTo(links, n, goal, visited)}
                : n \in rest}

\* _would_create_cycle searching in the wrong direction, source -> target
WouldCreateCycle_Swapped(r, source, target) == HasPathTo(r.links, source, target, {})

\* _would_create_cycle that starts the search at the neighbours of the target
WouldCreateCycle_SkipStart(r, source, target) ==
    HasPathLoop(r.links, DictGet(r.links, target, {}), source, {target})

\* _would_create_cycle that does not clear _visited before the search
WouldCreateCycle_KeepVisited(r, source, target) ==
    HasPathTo(r.links, target, source, r.visited)

\* _would_create_cycle that only looks at the edges leaving the target
WouldCreateCycle_DirectOnly(r, source, target) ==
    {[ret |-> source = target \/ source \in GetLinks(r, target),
      visited |-> {target}]}

\* LinkRegistry._would_create_cycle: clear _visited, search target -> source
WouldCreateCycle(r, source, target) == HasPathTo(r.links, target, source, {})

\* add_link that creates the two keys before it runs the cycle check
AddLink_KeysFirst(r, source, target) ==
    LET links == DictPut(r.links, source, GetLinks(r, source))
        reverse_links == DictPut(r.reverse_links, target, GetReverseLinks(r, target))
    IN {IF o.ret
        THEN [reg |-> [links |-> links, reverse_links |-> reverse_links,
                       visited |-> o.visited],
              ret |-> FALSE]
        ELSE [reg |-> [links |-> DictPut(links, source, links[source] \cup {target}),
                       reverse_links |-> DictPut(reverse_links, target,
                                                 reverse_links[target] \cup {source}),
                       visited |-> o.visited],
              ret |-> TRUE]
        : o \in WouldCreateCycle(r, source, target)}

\* add_link that records an accepted edge in the forward direction only
AddLink_ForwardOnly(r, source, target) ==
    {IF o.ret
     THEN [reg |-> [r EXCEPT !.visited = o.visited], ret |-> FALSE]
     ELSE [reg |-> [links |-> DictPut(r.links, source,
                                      GetLinks(r, source) \cup {target}),
                    reverse_links |-> r.reverse_links,
                    visited |-> o.visited],
           ret |-> TRUE]
     : o \in WouldCreateCycle(r, source, target)}

\* LinkRegistry.add_link: the set of outcomes [reg, ret]
AddLink(r, source, target) ==
    {IF o.ret
     THEN [reg |-> [r EXCEPT !.visited = o.visited], ret |-> FALSE]
     ELSE [reg |-> [links |-> DictPut(r.links, source,
                                      GetLinks(r, source) \cup {target}),
                    reverse_links |-> DictPut(r.reverse_links, target,
                                      GetReverseLinks(r, target) \cup {source}),
                    visited |-> o.visited],
           ret |-> TRUE]
     : o \in WouldCreateCycle(r, source, target)}


(***************************************************************************)
(* FileScanner                                                             *)
(***************************************************************************)
\* FileScanner.is_leaf_node
IsLeafNode(entry) ==
    IF entry.file_type = "blend" THEN FALSE ELSE entry.file_type \in LEAF_TYPES

\* is_blend_file that takes every file for a container
IsBlendFile_Any(entry) == TRUE

\* FileScanner.is_blend_file
IsBlendFile(entry) == entry.file_type = "blend"

\* FileScanner._create_file_entry: None unless a regular file is there, and
\* None when stat() raised
ScanCreateFileEntry(p) ==
    IF ~Exists(p) \/ ~IsFile(p) THEN NoEntry
    ELSE IF StatFails(p) THEN NoEntry
    ELSE FileEntry(p, StSize(p), GetFileType(p))

\* the files FileScanner.scan can yield: regular files below the root folder
ScanFiles ==
    {p \in Universe : IsPrefix(root_folder, p.folder) /\ ScanCreateFileEntry(p) # NoEntry}

(***************************************************************************)
(* BlenderIntegration                                                      *)
(***************************************************************************)
\* sorted(list(external_files)) of the extraction script: the paths of a set
\* in the order of their string forms
SortedList(S) == SelectSeq(PathSeq, LAMBDA p : p \in S)

\* the lists extract_blend_dependencies can return with at most n paths (the
\* empty list is also what a timeout or a failed run gives)
DependencyLists(n) == {SortedList(S) : S \in {T \in SUBSET Universe : Cardinality(T) <= n}}

\* how one run of the Blender subprocess ends: within the timeout, or not
CallOutcomes == {"ok", "timeout"}

\* extract_blend_metadata that reports counts also after a timeout
ExtractBlendMetadata_IgnoreTimeout(outcome) == "extracted"

\* BlenderIntegration.extract_blend_metadata: the counts the script printed
\* ("extracted"), or BlendFileMetadata() with every count zero ("default")
\* when subprocess.run raised TimeoutExpired
ExtractBlendMetadata(outcome) ==
    IF outcome = "timeout" THEN "default" ELSE "extracted"

\* _run_blender_script that parses what the script had printed when the
\* timeout struck
RunBlenderScript_KeepOutput(outcome, files) == files

\* BlenderIntegration._run_blender_script: the list the script printed, or []
\* when subprocess.run raised TimeoutExpired
RunBlenderScript(outcome, files) ==
    IF outcome = "timeout" THEN <<>> ELSE files

(***************************************************************************)
(* FileProcessor                                                           *)
(***************************************************************************)
\* _create_entry_for_file that builds an entry for whatever is at the path,
\* with size 0 where stat() gives none
CreateEntryForFile_Unchecked(p) ==
    FileEntry(p, IF IsFile(p) /\ ~StatFails(p) THEN StSize(p) ELSE 0, GetFileType(p))

\* FileProcessor._create_entry_for_file: None unless a regular file is there
\* (line 171), and None when stat() raised (lines 185-187)
CreateEntryForFile(p) ==
    IF ~Exists(p) \/ ~IsFile(p) THEN NoEntry
    ELSE IF StatFails(p) THEN NoEntry
    ELSE FileEntry(p, StSize(p), GetFileType(p))

\* the dedup guard left out
AlreadyProcessed_Never(entry, pp) == FALSE

\* process_stack line 59: the dedup guard
AlreadyProcessed(entry, pp) == entry.path \in pp

\* reading the front of the worklist without removing it
PopLeft_Peek(q) == q

\* deque.popleft(): what is left of the worklist
PopLeft(q) == Tail(q)

\* deque.appendleft() in place of append()
PushBack_Front(q, x) == <<x>> \o q

\* deque.append()
PushBack(q, x) == Append(q, x)

\* the link registered in the registry with its two ends exchanged
RegisterLink_Reversed(st, e, target) ==
    {[st EXCEPT !.registry = o.reg,
                !.heap = EntryAddLink(st.heap, e, target),
                !.link_calls = Append(@, [source |-> st.heap[target].path,
                                          target |-> st.heap[e].path,
                                          ret |-> o.ret])]
     : o \in AddLink(st.registry, st.heap[target].path, st.heap[e].path)}

\* lines 137-143: register the link in the registry, then on the entry.
\* st is the state the for loop threads: heap, store, registry, the worklist
\* and the histories; the result is the set of possible next states.
RegisterLink(st, e, target) ==
    {[st EXCEPT !.registry = o.reg,
                !.heap = EntryAddLink(st.heap, e, target),
                !.link_calls = Append(@, [source |-> st.heap[e].path,
                                          target |-> st.heap[target].path,
                                          ret |-> o.ret])]
     : o \in AddLink(st.registry, st.heap[e].path, st.heap[target].path)}

\* the discovery that enqueues and links the new entry without add_entry
DiscoverNew_NoStore(st, e, p) ==
    LET external_entry == CreateEntryForFile(p)
        id == Len(st.heap) + 1
        h == Append(st.heap, external_entry)
    IN IF external_entry = NoEntry THEN {st}
       ELSE RegisterLink([st EXCEPT !.heap = h,
                                    !.stack = PushBack(st.stack, id),
                                    !.placed = Append(@, p),
                                    !.depth = Append(@, st.depth[e] + 1)],
                         e, id)

\* the discovery that stores and links the new entry without enqueuing it
DiscoverNew_NoEnqueue(st, e, p) ==
    LET external_entry == CreateEntryForFile(p)
        id == Len(st.heap) + 1
        h == Append(st.heap, external_entry)
    IN IF external_entry = NoEntry THEN {st}
       ELSE RegisterLink([st EXCEPT !.heap = h,
                                    !.store = AddEntry(st.store, h, id),
                                    !.added = Append(@, id),
                                    !.depth = Append(@, st.depth[e] + 1)],
                         e, id)

\* lines 130-139: no entry in the store: synthesize one, store it, enqueue it
\* and link it
DiscoverNew(st, e, p) ==
    LET external_entry == CreateEntryForFile(p)
        id == Len(st.heap) + 1
        h == Append(st.heap, external_entry)
    IN IF external_entry = NoEntry THEN {st}
       ELSE RegisterLink([st EXCEPT !.heap = h,
                                    !.store = AddEntry(st.store, h, id),
                                    !.stack = PushBack(st.stack, id),
                                    !.added = Append(@, id),
                                    !.placed = Append(@, p),
                                    !.depth = Append(@, st.depth[e] + 1)],
                         e, id)

\* the body of the for loop without the test of line 126: a path that was
\* processed before is looked up and linked like any other
ProcessExternalPath_NoProcessedGate(st, e, p, pp, follow) ==
    IF ~follow /\ ~IsInRootFolder(p)
    THEN {[st EXCEPT !.heap[e].metadata.external_links = Append(@, p)]}
    ELSE IF ~Exists(p) THEN {st}
    ELSE LET existing_entry == GetEntry(st.store, p)
         IN IF existing_entry = None
            THEN DiscoverNew(st, e, p)
            ELSE RegisterLink(st, e, existing_entry)

\* lines 108-143: the body of the for loop for one referenced path p of the
\* container e; pp is processed_paths, follow is follow_external
ProcessExternalPath(st, e, p, pp, follow) ==
    IF ~follow /\ ~IsInRootFolder(p)
    THEN {[st EXCEPT !.heap[e].metadata.external_links = Append(@, p)]}
    ELSE IF ~Exists(p) THEN {st}
    ELSE IF p \in pp THEN {st}
    ELSE LET existing_entry == GetEntry(st.store, p)
         IN IF existing_entry = None
            THEN DiscoverNew(st, e, p)
            ELSE RegisterLink(st, e, existing_entry)

\* the for loop that ends at the first path that is not on disk (break in
\* place of the continue of line 122)
RECURSIVE ProcessExternalFiles_StopAtMissing(_, _, _, _, _, _)
ProcessExternalFiles_StopAtMissing(st, e, files, i, pp, follow) ==
    IF i > Len(files) THEN {st}
    ELSE IF ~Exists(files[i]) THEN {st}
    ELSE UNION {ProcessExternalFiles_StopAtMissing(t, e, files, i + 1, pp, follow)
                : t \in ProcessExternalPath(st, e, files[i], pp, follow)}

\* line 107: the for loop over external_files[i..]
RECURSIVE ProcessExternalFiles(_, _, _, _, _, _)
ProcessExternalFiles(st, e, files, i, pp, follow) ==
    IF i > Len(files) THEN {st}
    ELSE UNION {ProcessExternalFiles(t, e, files, i + 1, pp, follow)
                : t \in ProcessExternalPath(st, e, files[i], pp, follow)}

\* _process_blend_file without the test of line 100
ProcessBlendFile_IgnoreAvailable(st, e, blend, files, pp, follow, available) ==
    ProcessExternalFiles([st EXCEPT !.heap[e].metadata.blend = blend],
                         e, files, 1, pp, follow)

\* FileProcessor._process_blend_file with the metadata blend and the list files
\* that the two extraction calls returned; available is TRUE iff
\* self.blender_integration is set (if it is not, no call is made and the
\* two values are not used)
ProcessBlendFile(st, e, blend, files, pp, follow, available) ==
    IF available
    THEN ProcessExternalFiles([st EXCEPT !.heap[e].metadata.blend = blend],
                              e, files, 1, pp, follow)
    ELSE {[st EXCEPT !.heap[e].metadata.blend = "default"]}

\* FileProcessor._process_leaf_node / _process_unknown_file: the entry's
\* metadata is replaced by what MetadataExtractor.extract returns
ProcessExtract(st, e) ==
    [st EXCEPT !.heap[e].metadata =
        [extract |-> st.heap[e].file_type, blend |-> "absent", external_links |-> <<>>]]

\* an iteration that leaves the processed flag as it was
MarkProcessed_Skip(h, e) == h

\* lines 76-77: mark the entry processed
MarkProcessed(h, e) == [h EXCEPT ![e].processed = TRUE]

\* FileProcessor.process_stack (lines 55-79) as a function: the states in
\* which the loop can end when it starts in state st (st.stack the worklist)
\* with the processed-path set pp; refs gives for each container the list
\* its dependency extraction returns
RECURSIVE ProcessStack(_, _, _, _, _)
ProcessStack(st, pp, refs, follow, available) ==
    IF st.stack = <<>> THEN {st}
    ELSE LET e == Head(st.stack)
             popped == [st EXCEPT !.stack = PopLeft(st.stack), !.link_calls = <<>>]
         IN IF AlreadyProcessed(st.heap[e], pp)
            THEN ProcessStack(popped, pp, refs, follow, available)
            ELSE LET now == pp \cup {st.heap[e].path}
                     after ==
                        IF IsLeafNode(st.heap[e]) THEN {ProcessExtract(popped, e)}
                        ELSE IF IsBlendFile(st.heap[e])
                        THEN ProcessBlendFile(popped, e, ExtractBlendMetadata("ok"),
                                              DictGet(refs, st.heap[e].path, <<>>),
                                              now, follow, available)
                        ELSE {ProcessExtract(popped, e)}
                 IN UNION {ProcessStack([t EXCEPT !.heap = MarkProcessed(t.heap, e)],
                                        now, refs, follow, available)
                           : t \in after}


(***************************************************************************)
(* Helpers on sequences and dictionaries                                   *)
(***************************************************************************)
\* the sequences over S of length at most n
SeqsUpTo(S, n) == UNION {[1..k -> S] : k \in 0..n}

\* the elements of a sequence, each once, in the order of first occurrence
RECURSIVE FirstOccurrences(_)
FirstOccurrences(q) ==
    IF q = <<>> THEN <<>>
    ELSE LET front == FirstOccurrences(SubSeq(q, 1, Len(q) - 1))
             last == q[Len(q)]
         IN IF \E i \in 1..Len(front) : front[i] = last THEN front
            ELSE Append(front, last)

\* the position of x in the sequence q
IndexOf(q, x) == CHOOSE i \in 1..Len(q) : q[i] = x

\* main.py lines 56-57: add_entry for the objects 1..n of heap h
RECURSIVE AddEntries(_, _, _)
AddEntries(s, h, n) ==
    IF n = 0 THEN s ELSE AddEntry(AddEntries(s, h, n - 1), h, n)

\* the number of paths in the lists of the dictionary d
RECURSIVE TotalLen(_)
TotalLen(d) ==
    IF DOMAIN d = {} THEN 0
    ELSE LET k == CHOOSE x \in DOMAIN d : TRUE
         IN Len(d[k]) + TotalLen([x \in (DOMAIN d) \ {k} |-> d[x]])

Min(a, b) == IF a < b THEN a ELSE b

(***************************************************************************)
(* DigraphBuilder.  A node id is the list of the components of the string  *)
(* that names the node: 'tex' is <<"tex">>, 'sub/tex' is <<"sub", "tex">>. *)
(***************************************************************************)
\* nx.DiGraph(): the nodes and the edges, each with its attribute dict
EmptyDigraph == [nodes |-> EmptyDict, edges |-> EmptyDict]

\* the empty attribute dict of a node that add_edge had to create
NoAttrs == [absent |-> TRUE]

\* entry.name
EntryName(entry) == [stem |-> entry.path.stem, ext |-> entry.path.ext]

\* Path.name of a folder: its last component
FolderName(folder) == IF folder = <<>> THEN "" ELSE folder[Len(folder)]

\* folder.relative_to(root) where root is a prefix of folder
RelativeTo(folder, root) == SubSeq(folder, Len(root) + 1, Len(folder))

\* lines 52-58: the node id of a folder in the first pass: its path relative
\* to the root ('.', the root itself, becomes 'root'), or the last component
\* of a folder outside the root
FolderNodeId(folder, root) ==
    IF IsPrefix(root, folder)
    THEN IF RelativeTo(folder, root) = <<>> THEN <<"root">>
         ELSE RelativeTo(folder, root)
    ELSE <<FolderName(folder)>>

\* DigraphBuilder._get_node_id, used by the second pass (the replacement of
\* '\' by '/' changes nothing on the POSIX paths modelled here)
GetNodeId(folder, root) ==
    IF IsPrefix(root, folder)
    THEN IF RelativeTo(folder, root) = <<>> THEN <<"root">>
         ELSE RelativeTo(folder, root)
    ELSE <<FolderName(folder)>>

\* lines 41-47: the keys of the dict folders, in insertion order: the folders
\* of the entries of the store, each once
GroupFolders(s, h) ==
    FirstOccurrences([i \in 1..Len(GetAllEntries(s)) |->
                         h[GetAllEntries(s)[i]].path.folder])

\* lines 43-47: folders[folder]: the entries of the folder, in store order
FilesInFolder(s, h, folder) ==
    SelectSeq(GetAllEntries(s), LAMBDA id : h[id].path.folder = folder)

\* line 61: sum(f.size for f in files)
RECURSIVE SumSizes(_, _)
SumSizes(h, files) ==
    IF files = <<>> THEN 0 ELSE h[Head(files)].size + SumSizes(h, Tail(files))

\* DiGraph.add_node with all four attributes: a new node, or new attributes
\* for the node that has this id
AddNode(g, node_id, attrs) == [g EXCEPT !.nodes = DictPut(@, node_id, attrs)]

\* lines 49-66: the for loop of the first pass over folders[i..]
RECURSIVE CreateFolderNodes(_, _, _, _, _, _)
CreateFolderNodes(g, s, h, root, folders, i) ==
    IF i > Len(folders) THEN g
    ELSE LET files == FilesInFolder(s, h, folders[i])
             attrs == [folder_path |-> folders[i],
                       file_count |-> Len(files),
                       total_size |-> SumSizes(h, files),
                       files |-> files]
         IN CreateFolderNodes(AddNode(g, FolderNodeId(folders[i], root), attrs),
                              s, h, root, folders, i + 1)

\* DiGraph.has_edge
HasEdge(g, u, v) == <<u, v>> \in DOMAIN g.edges

\* DiGraph.add_edge: the edge with its attributes; an endpoint that is not a
\* node yet becomes one, without attributes
AddEdge(g, u, v, attrs) ==
    LET with_u == IF u \in DOMAIN g.nodes THEN g.nodes
                  ELSE DictPut(g.nodes, u, NoAttrs)
    IN [nodes |-> IF v \in DOMAIN with_u THEN with_u
                  ELSE DictPut(with_u, v, NoAttrs),
        edges |-> DictPut(g.edges, <<u, v>>, attrs)]

\* the test of line 79 left out
IsCrossFolder_Always(source_folder, target_folder) == TRUE

\* line 79: the two ends of a link lie in different folder nodes
IsCrossFolder(source_folder, target_folder) == source_folder # target_folder

\* lines 75-95: the body of the inner loop for one linked entry; acc holds
\* the graph and the set processed_edges
LinkEdge(acc, h, root, entry, linked_entry) ==
    LET source_folder == GetNodeId(h[entry].path.folder, root)
        target_folder == GetNodeId(h[linked_entry].path.folder, root)
        edge_key == <<source_folder, target_folder>>
        pair == <<EntryName(h[entry]), EntryName(h[linked_entry])>>
    IN IF ~IsCrossFolder(source_folder, target_folder) THEN acc
       ELSE IF edge_key \in acc.processed_edges THEN acc
       ELSE [g |-> IF HasEdge(acc.g, source_folder, target_folder)
                   THEN [acc.g EXCEPT !.edges[edge_key] =
                            [weight |-> @.weight + 1,
                             file_links |-> Append(@.file_links, pair)]]
                   ELSE AddEdge(acc.g, source_folder, target_folder,
                                [weight |-> 1, file_links |-> <<pair>>]),
             processed_edges |-> acc.processed_edges \cup {edge_key}]

\* line 75: the inner loop over entry.links[k..]
RECURSIVE LinkEdgesOfEntry(_, _, _, _, _)
LinkEdgesOfEntry(acc, h, root, entry, k) ==
    IF k > Len(h[entry].links) THEN acc
    ELSE LinkEdgesOfEntry(LinkEdge(acc, h, root, entry, h[entry].links[k]),
                          h, root, entry, k + 1)

\* line 72: the outer loop over get_all_entries()[i..]
RECURSIVE LinkEdges(_, _, _, _, _)
LinkEdges(acc, h, root, entries, i) ==
    IF i > Len(entries) THEN acc
    ELSE LinkEdges(LinkEdgesOfEntry(acc, h, root, entries[i], 1),
                   h, root, entries, i + 1)

\* DigraphBuilder.build_by_folder_hierarchy: the graph it leaves in
\* self.digraph
BuildByFolderHierarchy(s, h, root) ==
    LinkEdges([g |-> CreateFolderNodes(EmptyDigraph, s, h, root,
                                       GroupFolders(s, h), 1),
               processed_edges |-> {}],
              h, root, GetAllEntries(s), 1).g

(***************************************************************************)
(* process_project: scan, fill the store, run process_stack, build graph   *)
(***************************************************************************)
\* process_project up to the call of process_stack: the worklist is what the
\* scanner yielded (regular files below the root, in the order of os.walk;
\* files the scanner skips are not on it; a worklist naming an entry twice is
\* also admitted), every scanned entry is in the store, the registry is empty
Init ==
    /\ \E seed \in SeqsUpTo(ScanFiles, MaxSeed) :
         LET files == FirstOccurrences(seed)
             h == [i \in 1..Len(files) |-> ScanCreateFileEntry(files[i])]
         IN /\ heap = h
            /\ store = AddEntries(EmptyStore, h, Len(h))
            /\ processing_stack = [i \in 1..Len(seed) |-> IndexOf(files, seed[i])]
            /\ placed = seed
            /\ depth = [i \in 1..Len(files) |-> 0]
            /\ added = [i \in 1..Len(files) |-> i]
    /\ registry = EmptyRegistry
    /\ processed_paths = {}
    /\ output_list = <<>>
    /\ follow_external \in BOOLEAN
    /\ blender_integration \in BOOLEAN
    /\ pc = "loop"
    /\ external_files = EmptyDict
    /\ link_calls = <<>>
    /\ digraph = EmptyDigraph
    /\ timeouts = EmptyDict

\* the state the branches of one iteration work on
LoopState ==
    [heap |-> heap, store |-> store, registry |-> registry,
     stack |-> PopLeft(processing_stack), added |-> added, placed |-> placed,
     depth |-> depth, link_calls |-> <<>>]

\* lines 62 and 76-77 around a branch that ended in state st for entry e
Finish(st, e) ==
    /\ heap' = MarkProcessed(st.heap, e)
    /\ store' = st.store
    /\ registry' = st.registry
    /\ processing_stack' = st.stack
    /\ added' = st.added
    /\ placed' = st.placed
    /\ depth' = st.depth
    /\ link_calls' = st.link_calls
    /\ processed_paths' = processed_paths \cup {heap[e].path}
    /\ output_list' = Append(output_list, e)
    /\ UNCHANGED <<follow_external, blender_integration, pc, digraph>>

\* lines 56-60: the entry at the front was processed before: drop it
SkipProcessed ==
    /\ pc = "loop"
    /\ processing_stack # <<>>
    /\ AlreadyProcessed(heap[Head(processing_stack)], processed_paths)
    /\ processing_stack' = PopLeft(processing_stack)
    /\ link_calls' = <<>>
    /\ UNCHANGED <<heap, store, registry, processed_paths, output_list,
                   follow_external, blender_integration, pc, external_files,
                   placed, depth, added, digraph, timeouts>>

\* lines 65-66: one iteration on a leaf entry
ProcessLeafNode ==
    /\ pc = "loop"
    /\ processing_stack # <<>>
    /\ LET e == Head(processing_stack)
       IN /\ ~AlreadyProcessed(heap[e], processed_paths)
          /\ IsLeafNode(heap[e])
          /\ Finish(ProcessExtract(LoopState, e), e)
    /\ UNCHANGED <<external_files, timeouts>>

\* lines 69-70: one iteration on a container entry, each of the two
\* extraction calls ending in one of the given outcomes
ProcessBlendCalls(outcomes) ==
    /\ pc = "loop"
    /\ processing_stack # <<>>
    /\ LET e == Head(processing_stack)
           pp == processed_paths \cup {heap[e].path}
       IN /\ ~AlreadyProcessed(heap[e], processed_paths)
          /\ ~IsLeafNode(heap[e])
          /\ IsBlendFile(heap[e])
          /\ \E meta \in outcomes, deps \in outcomes :
             \E printed \in DependencyLists(
                              Min(MaxDeps, MaxRefs - TotalLen(external_files))) :
               LET blend == ExtractBlendMetadata(meta)
                   files == RunBlenderScript(deps, printed)
               IN /\ external_files' =
                        IF blender_integration
                        THEN DictPut(external_files, heap[e].path, files)
                        ELSE external_files
                  /\ timeouts' =
                        IF blender_integration
                        THEN DictPut(timeouts, heap[e].path,
                                     [metadata |-> meta = "timeout",
                                      dependencies |-> deps = "timeout"])
                        ELSE timeouts
                  /\ \E st \in ProcessBlendFile(LoopState, e, blend, files, pp,
                                                follow_external,
                                                blender_integration) :
                        Finish(st, e)

\* one iteration on a container entry whose extraction calls return in time
ProcessBlend == ProcessBlendCalls({"ok"})

\* one iteration on a container entry whose extraction calls may time out
ProcessBlendTimeout == ProcessBlendCalls(CallOutcomes)

\* lines 73-74: one iteration on an entry of any other type
ProcessUnknownFile ==
    /\ pc = "loop"
    /\ processing_stack # <<>>
    /\ LET e == Head(processing_stack)
       IN /\ ~AlreadyProcessed(heap[e], processed_paths)
          /\ ~IsLeafNode(heap[e])
          /\ ~IsBlendFile(heap[e])
          /\ Finish(ProcessExtract(LoopState, e), e)
    /\ UNCHANGED <<external_files, timeouts>>

\* lines 55 and 79: the worklist is empty, process_stack returns
Return ==
    /\ pc = "loop"
    /\ processing_stack = <<>>
    /\ pc' = "done"
    /\ link_calls' = <<>>
    /\ UNCHANGED <<heap, store, registry, processing_stack, processed_paths,
                   output_list, follow_external, blender_integration,
                   external_files, placed, depth, added, digraph, timeouts>>

\* main.py lines 97-98 (and any other caller): build_by_folder_hierarchy on
\* the store as it is
BuildDigraph ==
    /\ pc \in {"done", "graph"}
    /\ digraph' = BuildByFolderHierarchy(store, heap, root_folder)
    /\ pc' = "built"
    /\ UNCHANGED <<heap, store, registry, processing_stack, processed_paths,
                   output_list, follow_external, blender_integration,
                   external_files, placed, depth, link_calls, added, timeouts>>

Next ==
    \/ SkipProcessed
    \/ ProcessLeafNode
    \/ ProcessBlend
    \/ ProcessUnknownFile
    \/ Return
    \/ BuildDigraph

Spec == Init /\ [][Next]_vars

\* the same run where a call of Blender may exceed its timeout
NextTimeout ==
    \/ SkipProcessed
    \/ ProcessLeafNode
    \/ ProcessBlendTimeout
    \/ ProcessUnknownFile
    \/ Return
    \/ BuildDigraph

SpecTimeout == Init /\ [][NextTimeout]_vars

\* one iteration of the loop of process_stack, or its return
LoopStep ==
    \/ SkipProcessed
    \/ ProcessLeafNode
    \/ ProcessBlend
    \/ ProcessUnknownFile
    \/ Return

\* the loop is sequential code: it keeps running until it returns
FairSpec == Spec /\ WF_vars(LoopStep)

TypeOK ==
    /\ pc \in {"loop", "done", "built"}
    /\ \A i \in 1..Len(processing_stack) : processing_stack[i] \in 1..Len(heap)
    /\ \A i \in 1..Len(output_list) : output_list[i] \in 1..Len(heap)
    /\ processed_paths \subseteq Universe
    /\ Len(depth) = Len(heap)


(***************************************************************************)
(* LinkRegistry on its own: any sequence of add_link calls                 *)
(***************************************************************************)
\* the paths the calls are drawn from
RegNodes == {PathSeq[i] : i \in 1..MaxRegNodes}

InitRegistry ==
    /\ heap = <<>>
    /\ store = EmptyStore
    /\ registry = EmptyRegistry
    /\ processing_stack = <<>>
    /\ processed_paths = {}
    /\ output_list = <<>>
    /\ follow_external = FALSE
    /\ blender_integration = FALSE
    /\ pc = "registry"
    /\ external_files = EmptyDict
    /\ placed = <<>>
    /\ depth = <<>>
    /\ link_calls = <<>>
    /\ added = <<>>
    /\ digraph = EmptyDigraph
    /\ timeouts = EmptyDict

\* one call add_link(source, target)
CallAddLink ==
    /\ pc = "registry"
    /\ \E source \in RegNodes, target \in RegNodes :
         \E o \in AddLink(registry, source, target) :
            /\ registry' = o.reg
            /\ link_calls' = <<[source |-> source, target |-> target, ret |-> o.ret]>>
    /\ UNCHANGED <<heap, store, processing_stack, processed_paths, output_list,
                   follow_external, blender_integration, pc, external_files,
                   placed, depth, added, digraph, timeouts>>

NextRegistry == CallAddLink

SpecRegistry == InitRegistry /\ [][NextRegistry]_vars

(***************************************************************************)
(* MetadataStore on its own: any sequence of add_entry calls               *)
(***************************************************************************)
InitStore ==
    /\ heap = <<>>
    /\ store = EmptyStore
    /\ registry = EmptyRegistry
    /\ processing_stack = <<>>
    /\ processed_paths = {}
    /\ output_list = <<>>
    /\ follow_external = FALSE
    /\ blender_integration = FALSE
    /\ pc = "store"
    /\ external_files = EmptyDict
    /\ placed = <<>>
    /\ depth = <<>>
    /\ link_calls = <<>>
    /\ added = <<>>
    /\ digraph = EmptyDigraph
    /\ timeouts = EmptyDict

\* add_entry of a newly constructed FileEntry for some path
CallAddEntryNew ==
    /\ pc = "store"
    /\ Len(added) < MaxAdds
    /\ \E p \in Universe :
         LET h == Append(heap, FileEntry(p, StSize(p), GetFileType(p)))
         IN /\ heap' = h
            /\ store' = AddEntry(store, h, Len(h))
            /\ added' = Append(added, Len(h))
            /\ depth' = Append(depth, 0)
    /\ UNCHANGED <<registry, processing_stack, processed_paths, output_list,
                   follow_external, blender_integration, pc, external_files,
                   placed, link_calls, digraph, timeouts>>

\* add_entry of an object that was added before
CallAddEntryAgain ==
    /\ pc = "store"
    /\ Len(added) < MaxAdds
    /\ \E id \in 1..Len(heap) :
         /\ store' = AddEntry(store, heap, id)
         /\ added' = Append(added, id)
    /\ UNCHANGED <<heap, registry, processing_stack, processed_paths, output_list,
                   follow_external, blender_integration, pc, external_files,
                   placed, depth, link_calls, digraph, timeouts>>

NextStore ==
    \/ CallAddEntryNew
    \/ CallAddEntryAgain

SpecStore == InitStore /\ [][NextStore]_vars


(***************************************************************************)
(* DigraphBuilder on its own: build_by_folder_hierarchy on any store       *)
(* contents and any entry links                                            *)
(***************************************************************************)
\* number of entries in the store
MaxEntries == 3
\* number of FileEntry.add_link calls
MaxLinks == 2

\* a file in a second folder outside the root whose last component is 'lib'
ExtU == MkPath(<<"ext", "lib">>, "u", "png")

\* the paths the store is filled from
GraphPaths == {ProjA, TexT, LibX, LibY, ExtU}

InitGraph ==
    /\ heap = <<>>
    /\ store = EmptyStore
    /\ registry = EmptyRegistry
    /\ processing_stack = <<>>
    /\ processed_paths = {}
    /\ output_list = <<>>
    /\ follow_external = TRUE
    /\ blender_integration = FALSE
    /\ pc = "graph"
    /\ external_files = EmptyDict
    /\ placed = <<>>
    /\ depth = <<>>
    /\ link_calls = <<>>
    /\ added = <<>>
    /\ digraph = EmptyDigraph
    /\ timeouts = EmptyDict

\* add_entry of a new FileEntry for a path the store does not hold yet
StoreNewEntry ==
    /\ pc = "graph"
    /\ Len(heap) < MaxEntries
    /\ \E p \in GraphPaths \ DOMAIN store.entries :
         LET h == Append(heap, FileEntry(p, StSize(p), GetFileType(p)))
         IN /\ heap' = h
            /\ store' = AddEntry(store, h, Len(h))
            /\ added' = Append(added, Len(h))
    /\ UNCHANGED <<registry, processing_stack, processed_paths, output_list,
                   follow_external, blender_integration, pc, external_files,
                   placed, depth, link_calls, digraph, timeouts>>

\* one call entry.add_link(target) between two entries (a discovery of the
\* link entry -> target); link_calls lists the calls
CallEntryAddLink ==
    /\ pc = "graph"
    /\ Len(link_calls) < MaxLinks
    /\ \E e \in 1..Len(heap), target \in 1..Len(heap) :
         /\ heap' = EntryAddLink(heap, e, target)
         /\ link_calls' = Append(link_calls, [source |-> e, target |-> target])
    /\ UNCHANGED <<store, registry, processing_stack, processed_paths,
                   output_list, follow_external, blender_integration, pc,
                   external_files, placed, depth, added, digraph, timeouts>>

\* File-level mode, first pass: one node per entry of the store, named by
\* the entry's path, with its folder, size and type
RECURSIVE CreateFileNodes(_, _, _, _)
CreateFileNodes(g, h, entries, i) ==
    IF i > Len(entries) THEN g
    ELSE CreateFileNodes(AddNode(g, h[entries[i]].path,
                                 [folder_group |-> h[entries[i]].path.folder,
                                  size |-> h[entries[i]].size,
                                  file_type |-> h[entries[i]].file_type]),
                         h, entries, i + 1)

\* File-level mode: one link of an entry becomes an edge of weight 1, or adds
\* 1 to the weight of the edge the ordered pair already has
FileEdge(g, h, entry, linked_entry) ==
    IF HasEdge(g, h[entry].path, h[linked_entry].path)
    THEN [g EXCEPT !.edges[<<h[entry].path, h[linked_entry].path>>].weight = @ + 1]
    ELSE AddEdge(g, h[entry].path, h[linked_entry].path, [weight |-> 1])

\* File-level mode: the links entry.links[k..] of one entry
RECURSIVE FileEdgesOfEntry(_, _, _, _)
FileEdgesOfEntry(g, h, entry, k) ==
    IF k > Len(h[entry].links) THEN g
    ELSE FileEdgesOfEntry(FileEdge(g, h, entry, h[entry].links[k]), h, entry, k + 1)

\* File-level mode: the links of the entries entries[i..]
RECURSIVE FileEdges(_, _, _, _)
FileEdges(g, h, entries, i) ==
    IF i > Len(entries) THEN g
    ELSE FileEdges(FileEdgesOfEntry(g, h, entries[i], 1), h, entries, i + 1)

\* File-level mode: the graph with files as nodes
BuildFileLevel(s, h) ==
    FileEdges(CreateFileNodes(EmptyDigraph, h, GetAllEntries(s), 1),
              h, GetAllEntries(s), 1)

\* the file-level graph is built from the store as it is
BuildFileDigraph ==
    /\ pc = "graph"
    /\ digraph' = BuildFileLevel(store, heap)
    /\ pc' = "built_files"
    /\ UNCHANGED <<heap, store, registry, processing_stack, processed_paths,
                   output_list, follow_external, blender_integration,
                   external_files, placed, depth, link_calls, added, timeouts>>

NextGraph ==
    \/ StoreNewEntry
    \/ CallEntryAddLink
    \/ BuildDigraph
    \/ BuildFileDigraph

SpecGraph == InitGraph /\ [][NextGraph]_vars

(***************************************************************************)
(* Properties                                                              *)
(***************************************************************************)
Range(q) == {q[i] : i \in 1..Len(q)}

\* a regular file is at the path p and its size can be read
Readable(p) == Disk(p) = "file"

\* the path p lies in the root folder or below it
UnderRoot(p) ==
    /\ Len(p.folder) >= Len(root_folder)
    /\ SubSeq(p.folder, 1, Len(root_folder)) = root_folder

\* the paths of the entries of the output sequence, in order
OutputPaths == [i \in 1..Len(output_list) |-> heap[output_list[i]].path]

\* how often the path p is in the output sequence
TimesInOutput(p) == Cardinality({i \in 1..Len(output_list) : OutputPaths[i] = p})

\* the containers whose dependencies were extracted, as object ids
Expanded == {e \in 1..Len(heap) : heap[e].processed /\ heap[e].path \in DOMAIN external_files}

\* the paths the container e was told it references
References(e) == Range(external_files[heap[e].path])

\* the paths of the entries in e.links
LinkPaths(e) == {heap[heap[e].links[k]].path : k \in 1..Len(heap[e].links)}

\* the nodes reachable from the set S over the forward edges, S included
RECURSIVE ReachableFrom(_, _)
ReachableFrom(links, S) ==
    LET T == S \cup UNION {DictGet(links, x, {}) : x \in S}
    IN IF T = S THEN S ELSE ReachableFrom(links, T)

\* a directed path from b to a over the forward edges (of length 0 if a = b)
PathExists(links, b, a) == a \in ReachableFrom(links, {b})

\* C1: when process_stack has returned, every path that was ever on the
\* worklist is in the output sequence exactly once (and never more than once
\* before that).
C1_NoDoubleProcessing ==
    /\ \A p \in Universe : TimesInOutput(p) <= 1
    /\ pc = "done" => \A p \in Range(placed) : TimesInOutput(p) = 1

\* C1 witness: a finished run in which two different containers referenced
\* the same path, which went through the worklist into the output.
C1_Witness ==
    /\ pc = "done"
    /\ \E a \in Expanded, b \in Expanded :
          /\ a # b
          /\ \E p \in References(a) \cap References(b) : TimesInOutput(p) = 1

\* C2: the loop of process_stack eventually finds the worklist empty and
\* returns.
C2_Termination == <>(pc = "done" /\ processing_stack = <<>>)

\* C2 witness: a finished run over two containers that reference each other.
C2_Witness ==
    /\ pc = "done"
    /\ \E a \in Expanded, b \in Expanded :
          /\ a # b
          /\ heap[b].path \in References(a)
          /\ heap[a].path \in References(b)

\* the add_link call a registry step has just made
LastCall == link_calls[1]

\* C3: add_link(a, b) returns false exactly when the forward edges held a
\* path from b to a before the call (a = b included); after add_link(A, B),
\* add_link(B, A) returns false and get_links(B) does not contain A.
C3_RejectsExactlyCycles ==
    [][Len(link_calls') = 1 =>
         LET c == link_calls'[1]
         IN /\ (c.ret = FALSE) <=> PathExists(registry.links, c.target, c.source)
            /\ c.source \in GetLinks(registry, c.target) =>
                  /\ c.ret = FALSE
                  /\ c.target \notin GetLinks(registry', c.source)]_vars

\* C3 witness: a call between two different paths was rejected because of a
\* path of two or more edges from its target to its source.
C3_Witness ==
    /\ pc = "registry"
    /\ Len(link_calls) = 1
    /\ LastCall.ret = FALSE
    /\ LastCall.source # LastCall.target
    /\ LastCall.source \notin GetLinks(registry, LastCall.target)

\* C4: a call of add_link that returns false leaves the forward and the
\* reverse adjacency (key sets included) as they were.
C4_RejectionMutatesNothing ==
    [][(Len(link_calls') = 1 /\ link_calls'[1].ret = FALSE) =>
         /\ registry'.links = registry.links
         /\ registry'.reverse_links = registry.reverse_links]_vars

\* C4 witness: a rejected call whose source was not a key of the forward
\* edges and whose target was not a key of the reverse edges.
C4_Witness ==
    /\ pc = "registry"
    /\ Len(link_calls) = 1
    /\ LastCall.ret = FALSE
    /\ LastCall.source # LastCall.target
    /\ LastCall.source \notin DOMAIN registry.links
    /\ LastCall.target \notin DOMAIN registry.reverse_links

\* C5: add_link(A, A) returns false in every registry state, and no path is
\* ever among its own links or reverse links.
C5_SelfLinkRejected ==
    /\ (Len(link_calls) = 1 /\ LastCall.source = LastCall.target) => LastCall.ret = FALSE
    /\ \A a \in Universe :
          /\ a \notin GetLinks(registry, a)
          /\ a \notin GetReverseLinks(registry, a)

\* C5 witness: add_link(A, A) was called on a registry in which A has both
\* outgoing and incoming edges.
C5_Witness ==
    /\ pc = "registry"
    /\ Len(link_calls) = 1
    /\ LastCall.source = LastCall.target
    /\ GetLinks(registry, LastCall.source) # {}
    /\ GetReverseLinks(registry, LastCall.source) # {}

\* the follow-external gate and the existence check let the path p through
PassesGates(p) == (follow_external \/ UnderRoot(p)) /\ Exists(p)

\* C6: for every processed container e and every referenced path p that
\* passes the follow-external gate and is a file on disk, the link
\* e.path -> p is in the registry and p's entry is in e.links.  (Stated for
\* the references the registry has no reason to reject: p is not e itself
\* and the registry holds no path from p back to e.)
C6_LinkForEveryDependency ==
    \A e \in Expanded : \A p \in References(e) :
        (/\ PassesGates(p)
         /\ Readable(p)
         /\ p # heap[e].path
         /\ ~PathExists(registry.links, p, heap[e].path))
        => /\ p \in GetLinks(registry, heap[e].path)
           /\ p \in LinkPaths(e)

\* C7: with follow_external off, a path outside the root folder never gets an
\* entry, is never on the worklist or in the output, is in no registry edge
\* and in no entry's links; each container lists exactly its references
\* outside the root, in order, under external_links.
C7_ExternalNotFollowed ==
    ~follow_external =>
        /\ \A p \in Universe : ~UnderRoot(p) =>
              /\ GetEntry(store, p) = None
              /\ \A i \in 1..Len(heap) : heap[i].path # p
              /\ p \notin Range(placed)
              /\ TimesInOutput(p) = 0
              /\ p \notin DOMAIN registry.links
              /\ p \notin DOMAIN registry.reverse_links
              /\ \A e \in 1..Len(heap) : p \notin LinkPaths(e)
        /\ \A e \in Expanded :
              heap[e].metadata.external_links =
                 SelectSeq(external_files[heap[e].path], LAMBDA p : ~UnderRoot(p))

\* C7 witness: with follow_external off, a finished run in which a container
\* referenced a file outside the root that is on disk.
C7_Witness ==
    /\ ~follow_external
    /\ pc = "done"
    /\ \E e \in Expanded : \E p \in References(e) : ~UnderRoot(p) /\ Readable(p)

\* C8: with follow_external on, a container file p outside the root that is
\* on disk and referenced by the container e is in the store, has the link
\* e.path -> p, went onto the worklist and, when process_stack has returned,
\* was processed through the container branch.  (Stated for the references
\* the registry has no reason to reject, as in C6.)
C8_ExternalContainerFollowed ==
    (pc = "done" /\ follow_external) =>
        \A e \in Expanded : \A p \in References(e) :
            (/\ ~UnderRoot(p)
             /\ Readable(p)
             /\ GetFileType(p) = "blend"
             /\ p # heap[e].path
             /\ ~PathExists(registry.links, p, heap[e].path))
            => /\ GetEntry(store, p) # None
               /\ p \in GetLinks(registry, heap[e].path)
               /\ p \in Range(placed)
               /\ \E i \in 1..Len(output_list) :
                     /\ OutputPaths[i] = p
                     /\ heap[output_list[i]].metadata.blend # "absent"

\* s is an initial segment of t
IsInitialSegment(s, t) == Len(s) <= Len(t) /\ \A i \in 1..Len(s) : s[i] = t[i]

\* C9: the output sequence is in non-decreasing discovery depth and lists the
\* distinct paths in the order in which they first went onto the worklist.
C9_BreadthFirst ==
    /\ \A i \in 1..Len(output_list) : \A j \in i..Len(output_list) :
          depth[output_list[i]] <= depth[output_list[j]]
    /\ IsInitialSegment(OutputPaths, FirstOccurrences(placed))
    /\ pc = "done" => OutputPaths = FirstOccurrences(placed)

\* C9 witness: a finished run with two entries of depth 1 and one of depth 2.
C9_Witness ==
    /\ pc = "done"
    /\ \E i \in 1..Len(output_list) : depth[output_list[i]] = 2
    /\ Cardinality({i \in 1..Len(output_list) : depth[output_list[i]] = 1}) >= 2

\* the positions of the add_entry calls for the path p
AddsOf(p) == {i \in 1..Len(added) : heap[added[i]].path = p}

\* the object the latest add_entry call for p added, None if there was none
LastAdded(p) ==
    IF AddsOf(p) = {} THEN None
    ELSE added[CHOOSE i \in AddsOf(p) : \A j \in AddsOf(p) : j <= i]

\* C10: get_entry(p) is the record most recently added for p, None for a path
\* never added; total_entries and the length of get_all_entries are the
\* number of distinct paths added.
C10_StoreUniqueness ==
    /\ \A p \in Universe : GetEntry(store, p) = LastAdded(p)
    /\ TotalEntries(store) = Cardinality({p \in Universe : AddsOf(p) # {}})
    /\ Len(GetAllEntries(store)) = Cardinality({p \in Universe : AddsOf(p) # {}})

\* C10 witness: a path was added twice as two different records, and another
\* path was never added.
C10_Witness ==
    /\ pc = "store"
    /\ \E p \in Universe : \E i \in AddsOf(p), j \in AddsOf(p) : added[i] # added[j]
    /\ \E p \in Universe : AddsOf(p) = {}

\* the objects the store holds
StoreEntries == {store.entries[p] : p \in DOMAIN store.entries}

\* the folder a node of the built graph stands for
FolderPathOf(n) == digraph.nodes[n].folder_path

\* the links <<entry, position in entry.links>> that lead from an entry of
\* the store in folder f to an entry in folder g
CrossLinks(f, g) ==
    {l \in UNION {{<<e, k>> : k \in 1..Len(heap[e].links)} : e \in StoreEntries} :
        /\ heap[l[1]].path.folder = f
        /\ heap[heap[l[1]].links[l[2]]].path.folder = g}

\* the (source file name, target file name) pair of a link
NamePair(l) ==
    <<[stem |-> heap[l[1]].path.stem, ext |-> heap[l[1]].path.ext],
      [stem |-> heap[heap[l[1]].links[l[2]]].path.stem,
       ext |-> heap[heap[l[1]].links[l[2]]].path.ext]>>

\* C11: in the graph build_by_folder_hierarchy built, for every ordered pair
\* of distinct folder nodes (F, G) the edge F -> G exists iff some entry in F
\* links to an entry in G; its weight is the number of these links and its
\* file_links holds one name pair per link.
C11_FolderEdgeWeights ==
    pc = "built" =>
        \A F \in DOMAIN digraph.nodes, G \in DOMAIN digraph.nodes :
            F # G =>
                LET L == CrossLinks(FolderPathOf(F), FolderPathOf(G))
                IN /\ (<<F, G>> \in DOMAIN digraph.edges) <=> (L # {})
                   /\ L # {} =>
                         /\ digraph.edges[<<F, G>>].weight = Cardinality(L)
                         /\ Len(digraph.edges[<<F, G>>].file_links) = Cardinality(L)
                         /\ \A l \in L :
                               NamePair(l) \in Range(digraph.edges[<<F, G>>].file_links)

\* the node ids a link of the store's entries lies between
LinkEnds(l) ==
    <<GetNodeId(heap[l[1]].path.folder, root_folder),
      GetNodeId(heap[heap[l[1]].links[l[2]]].path.folder, root_folder)>>

\* all links <<entry, position>> of the entries of the store
AllLinks == UNION {{<<e, k>> : k \in 1..Len(heap[e].links)} : e \in StoreEntries}

\* C12: the graph build_by_folder_hierarchy built has no edge from a node to
\* itself, and every name pair an edge carries comes from a link between
\* entries of two different folders: links inside one folder contribute no
\* edge and no weight.
C12_NoFolderSelfLoop ==
    pc = "built" =>
        /\ \A n \in DOMAIN digraph.nodes : <<n, n>> \notin DOMAIN digraph.edges
        /\ \A k \in DOMAIN digraph.edges :
              /\ k[1] # k[2]
              /\ digraph.edges[k].weight = Len(digraph.edges[k].file_links)
              /\ \A i \in 1..Len(digraph.edges[k].file_links) :
                    \E l \in AllLinks :
                       /\ NamePair(l) = digraph.edges[k].file_links[i]
                       /\ LinkEnds(l) = k
                       /\ heap[l[1]].path.folder # heap[heap[l[1]].links[l[2]]].path.folder

\* C12 witness: a graph was built from a store in which one entry links to an
\* entry of its own folder and another link crosses folders.
C12_Witness ==
    /\ pc = "built"
    /\ DOMAIN digraph.edges # {}
    /\ \E l \in AllLinks :
          /\ heap[l[1]].path.folder = heap[heap[l[1]].links[l[2]]].path.folder
          /\ l[1] # heap[l[1]].links[l[2]]

\* the folders that contain an entry of the store
StoreFolders == {heap[e].path.folder : e \in StoreEntries}

\* the entries of the store that lie in folder f
EntriesIn(f) == {e \in StoreEntries : heap[e].path.folder = f}

\* the summed size of a set of entries
RECURSIVE SizeSum(_)
SizeSum(S) ==
    IF S = {} THEN 0
    ELSE LET e == CHOOSE x \in S : TRUE IN heap[e].size + SizeSum(S \ {e})

\* C13: build_by_folder_hierarchy creates exactly one node per distinct folder
\* that contains a store entry (the root folder as node 'root', folders
\* outside the root included), with file_count and total_size the number and
\* the summed size of the store entries of that folder.
C13_FolderNodes ==
    pc = "built" =>
        /\ Cardinality(DOMAIN digraph.nodes) = Cardinality(StoreFolders)
        /\ \A f \in StoreFolders :
              \E n \in DOMAIN digraph.nodes :
                 /\ digraph.nodes[n].folder_path = f
                 /\ digraph.nodes[n].file_count = Cardinality(EntriesIn(f))
                 /\ digraph.nodes[n].total_size = SizeSum(EntriesIn(f))
                 /\ (f = root_folder) <=> (n = <<"root">>)

\* how often entry.add_link(target) was called for the pair (a, b): the
\* number of times the link a -> b was discovered
Discoveries(a, b) ==
    Cardinality({i \in 1..Len(link_calls) :
                    link_calls[i].source = a /\ link_calls[i].target = b})

\* C14: the file-level graph has one node per file of the store and one edge
\* per ordered pair of linked files, whose weight is the number of times the
\* link was discovered (two discoveries of one link: one edge of weight 2).
\* Stated for links between two different files.
C14_FileWeightAccumulation ==
    pc = "built_files" =>
        /\ DOMAIN digraph.nodes = {heap[e].path : e \in StoreEntries}
        /\ \A a \in StoreEntries, b \in StoreEntries :
              a # b =>
                 /\ (<<heap[a].path, heap[b].path>> \in DOMAIN digraph.edges)
                       <=> (Discoveries(a, b) > 0)
                 /\ Discoveries(a, b) > 0 =>
                       digraph.edges[<<heap[a].path, heap[b].path>>].weight
                          = Discoveries(a, b)

\* the container whose extraction calls a step has just made, if any
JustExtracted == (DOMAIN timeouts') \ (DOMAIN timeouts)

\* C15: when an extraction call for the container e exceeds the timeout, the
\* metadata call gives the all-zero counts and the dependency call the empty
\* list; the step still marks e processed and appends it to the output,
\* enqueues nothing, stores nothing and links nothing for e, and leaves the
\* loop running on the rest of the worklist: when process_stack returns, the
\* worklist is empty and every path that was on it is in the output.
C15_TimeoutResilience ==
    [][/\ \A p \in JustExtracted :
          LET e == Head(processing_stack)
          IN /\ heap[e].path = p
             /\ timeouts'[p].metadata => heap'[e].metadata.blend = "default"
             /\ timeouts'[p].dependencies =>
                   /\ external_files'[p] = <<>>
                   /\ processing_stack' = Tail(processing_stack)
                   /\ store' = store
                   /\ Len(heap') = Len(heap)
                   /\ registry' = registry
                   /\ heap'[e].links = <<>>
                   /\ heap'[e].metadata.external_links = <<>>
             /\ (timeouts'[p].metadata \/ timeouts'[p].dependencies) =>
                   /\ heap'[e].processed
                   /\ output_list' = Append(output_list, e)
                   /\ processed_paths' = processed_paths \cup {p}
                   /\ pc' = "loop"
       /\ (pc' = "done" /\ DOMAIN timeouts # {}) =>
             /\ processing_stack' = <<>>
             /\ \A q \in Range(placed') : \E i \in 1..Len(output_list') :
                   heap'[output_list'[i]].path = q]_vars

\* C15 witness: a finished run in which both calls for one container timed
\* out, another container was expanded, and an entry was processed after the
\* container that timed out.
C15_Witness ==
    /\ pc = "done"
    /\ \E p \in DOMAIN timeouts :
          /\ timeouts[p].metadata
          /\ timeouts[p].dependencies
          /\ \E i \in 1..Len(output_list) : \E j \in (i + 1)..Len(output_list) :
                /\ OutputPaths[i] = p
                /\ heap[output_list[j]].processed
          /\ \E q \in DOMAIN timeouts :
                ~timeouts[q].dependencies /\ external_files[q] # <<>>

\* C16: without a BlenderIntegration, no step adds a store entry, registers a
\* link, creates an entry or puts anything on the worklist, every entry's
\* links stay empty, each iteration only takes the front entry off the
\* worklist, and when process_stack returns every entry is processed and the
\* output is the seed worklist without its repetitions.
C16_DegradedMode ==
    [][~blender_integration =>
          /\ store' = store
          /\ registry' = registry
          /\ Len(heap') = Len(heap)
          /\ placed' = placed
          /\ (pc = "loop" /\ pc' = "loop") => processing_stack' = Tail(processing_stack)
          /\ \A e \in 1..Len(heap') :
                /\ heap'[e].links = <<>>
                /\ heap'[e].metadata.external_links = <<>>
          /\ pc' = "done" =>
                /\ [i \in 1..Len(output_list') |-> heap'[output_list'[i]].path]
                      = FirstOccurrences(placed')
                /\ \A i \in 1..Len(output_list') : heap'[output_list'[i]].processed]_vars

\* C16 witness: a finished run without a BlenderIntegration whose worklist
\* named a container twice.
C16_Witness ==
    /\ pc = "done"
    /\ ~blender_integration
    /\ Len(placed) > Len(output_list)
    /\ \E i \in 1..Len(output_list) :
          /\ heap[output_list[i]].file_type = "blend"
          /\ heap[output_list[i]].processed

\* C17: after any sequence of add_link calls on an empty registry, the
\* forward edges have no directed cycle and no self-loop: no path is
\* reachable from its own successors.
C17_RegistryAcyclic ==
    \A a \in DOMAIN registry.links :
        a \notin ReachableFrom(registry.links, GetLinks(registry, a))

\* C17 witness: the registry holds a chain a -> b -> c and the call
\* add_link(c, a) that would close it has just been rejected.
C17_Witness ==
    /\ pc = "registry"
    /\ Len(link_calls) = 1
    /\ LastCall.ret = FALSE
    /\ \E b \in RegNodes :
          /\ b # LastCall.source
          /\ b # LastCall.target
          /\ LastCall.source # LastCall.target
          /\ b \in GetLinks(registry, LastCall.target)
          /\ LastCall.source \in GetLinks(registry, b)

\* C18: after any sequence of add_link calls, t is in get_links(s) iff s is
\* in get_reverse_links(t); an accepted add_link(s, t) has put t among the
\* links of s and s among the reverse links of t; a path without outgoing
\* (incoming) edges has the empty set as its links (reverse links).
C18_ForwardReverseConsistent ==
    /\ \A s \in Universe, t \in Universe :
          (t \in GetLinks(registry, s)) <=> (s \in GetReverseLinks(registry, t))
    /\ (Len(link_calls) = 1 /\ LastCall.ret) =>
          /\ LastCall.target \in GetLinks(registry, LastCall.source)
          /\ LastCall.source \in GetReverseLinks(registry, LastCall.target)
    /\ \A p \in Universe :
          /\ (\A q \in Universe : p \notin GetReverseLinks(registry, q))
                => GetLinks(registry, p) = {}
          /\ (\A q \in Universe : p \notin GetLinks(registry, q))
                => GetReverseLinks(registry, p) = {}

\* C18 witness: a call has just been accepted, one path has two incoming
\* edges, and another path of the registry has no outgoing edge.
C18_Witness ==
    /\ pc = "registry"
    /\ Len(link_calls) = 1
    /\ LastCall.ret
    /\ \E t \in RegNodes :
          /\ Cardinality(GetReverseLinks(registry, t)) = 2
          /\ GetLinks(registry, t) = {}

\* a registry with the edges of r on which no search has run yet
FreshRegistry(r) ==
    [links |-> r.links, reverse_links |-> r.reverse_links, visited |-> {}]

\* C19: what add_link(a, b) returns and the edges it leaves depend on the
\* edges of the registry and on (a, b) only: in every registry state, whatever
\* earlier calls (rejected ones included) left in the visited set, each call
\* gives the result and the edge set it gives on a registry that holds the
\* same edges and has an empty visited set.
C19_NoVisitedLeak ==
    \A a \in RegNodes, b \in RegNodes :
        \A o1 \in AddLink(registry, a, b) :
            \A o2 \in AddLink(FreshRegistry(registry), a, b) :
                /\ o1.ret = o2.ret
                /\ o1.reg.links = o2.reg.links
                /\ o1.reg.reverse_links = o2.reg.reverse_links

\* C19 witness: a rejected call has left in the visited set a path b from
\* which another path a can be reached, so that a search for a that skipped
\* visited paths would miss it.
C19_Witness ==
    /\ pc = "registry"
    /\ Len(link_calls) = 1
    /\ LastCall.ret = FALSE
    /\ \E a \in RegNodes, b \in registry.visited :
          /\ a # b
          /\ a \in GetLinks(registry, b)

\* C20: in a run in which two containers that both pass the gates reference
\* each other, the registry rejects the edge that would close the cycle
\* while the entry of its target is appended to the links of its source all
\* the same: when process_stack has returned, each of the two entries is in
\* the other's links, and the registry lacks one of the two edges.
C20_EntryLinksDiverge ==
    pc = "done" =>
        \A a \in Expanded, b \in Expanded :
            (/\ a # b
             /\ heap[b].path \in References(a)
             /\ heap[a].path \in References(b)
             /\ PassesGates(heap[a].path)
             /\ PassesGates(heap[b].path))
            => /\ heap[b].path \in LinkPaths(a)
               /\ heap[a].path \in LinkPaths(b)
               /\ ~(/\ heap[b].path \in GetLinks(registry, heap[a].path)
                    /\ heap[a].path \in GetLinks(registry, heap[b].path))

\* the number of entries of the seed worklist: what was on the worklist
\* before the first discovery (the discovered objects have depth 1 or more)
SeedLen == Len(placed) - Cardinality({i \in 1..Len(heap) : depth[i] > 0})

\* C21: a step puts a path p on the worklist only if p is not in the
\* processed-path set and has no store entry before the step; the step adds
\* the entry for p to the store and appends it at the back of the worklist.
\* Hence no path is on the worklist twice, unless the seed worklist itself
\* named it twice.
C21_EnqueueGating ==
    [][LET n == Len(placed') - Len(placed)
       IN /\ \A k \in 1..n :
                LET p == placed'[Len(placed) + k]
                IN /\ p \notin processed_paths'
                   /\ p \notin DOMAIN store.entries
                   /\ p \in DOMAIN store'.entries
          /\ n > 0 =>
                processing_stack' =
                   Tail(processing_stack) \o
                      [k \in 1..n |-> store'.entries[placed'[Len(placed) + k]]]
          /\ \A i \in 1..Len(placed') : \A j \in (i + 1)..Len(placed') :
                placed'[i] = placed'[j] => j <= SeedLen']_vars

\* C21 witness: a finished run in which two containers referenced the same
\* discovered file, which went onto the worklist once.
C21_Witness ==
    /\ pc = "done"
    /\ \E a \in Expanded, b \in Expanded :
          /\ a # b
          /\ \E p \in References(a) \cap References(b) :
                /\ p \in DOMAIN store.entries
                /\ depth[store.entries[p]] > 0
                /\ Cardinality({i \in 1..Len(placed) : placed[i] = p}) = 1

\* the paths on the worklist after a step
StackPathsAfter ==
    {heap'[processing_stack'[k]].path : k \in 1..Len(processing_stack')}

\* the paths of the links of entry e after a step
LinkPathsAfter(e) == {heap'[heap'[e].links[k]].path : k \in 1..Len(heap'[e].links)}

\* the step that processed the container c (entry e) handled the path q of
\* its list as the loop body handles any path: a readable file that passes
\* the gates and had no store entry is stored, enqueued and linked, a stored
\* unprocessed file is linked, and with follow_external off a path outside
\* the root is listed under external_links
HandledAsUsual(c, e, q) ==
    /\ (PassesGates(q) /\ Readable(q) /\ q \notin DOMAIN store.entries) =>
          /\ q \in DOMAIN store'.entries
          /\ q \in StackPathsAfter
          /\ q \in GetLinks(registry', c)
          /\ q \in LinkPathsAfter(e)
    /\ (PassesGates(q) /\ q \in DOMAIN store.entries /\ q \notin processed_paths') =>
          /\ q \in GetLinks(registry', c)
          /\ q \in LinkPathsAfter(e)
    /\ (~follow_external /\ ~UnderRoot(q)) =>
          q \in Range(heap'[e].metadata.external_links)

\* the step left nothing behind for the path p: no store entry, no record in
\* an index, no place on the worklist, no registry edge, no link of entry e
NothingRecorded(c, e, p) ==
    /\ p \notin DOMAIN store'.entries
    /\ \A t \in DOMAIN store'.by_type :
          \A k \in 1..Len(store'.by_type[t]) : heap'[store'.by_type[t][k]].path # p
    /\ \A f \in DOMAIN store'.by_folder :
          \A k \in 1..Len(store'.by_folder[f]) : heap'[store'.by_folder[f][k]].path # p
    /\ p \notin StackPathsAfter
    /\ p \notin Range(placed')
    /\ p \notin DOMAIN registry'.links
    /\ p \notin DOMAIN registry'.reverse_links
    /\ p \notin GetLinks(registry', c)
    /\ p \notin LinkPathsAfter(e)

\* C22: when the list of the container c holds a path p that passes the
\* follow-external gate and is not on disk, the step leaves p without a store
\* entry, off the worklist, out of the registry and out of the links of c,
\* and handles the paths that follow p in the list as it handles any other:
\* a file that passes the gates and has no store entry is stored, enqueued
\* and linked, a stored unprocessed file is linked, and with follow_external
\* off a path outside the root is listed under external_links.
C22_MissingDependencySkipped ==
    [][\A c \in JustExtracted :
          LET e == Head(processing_stack)
              files == external_files'[c]
          IN \A i \in 1..Len(files) :
                (~Exists(files[i]) /\ (follow_external \/ UnderRoot(files[i]))) =>
                   /\ NothingRecorded(c, e, files[i])
                   /\ \A j \in (i + 1)..Len(files) :
                         HandledAsUsual(c, e, files[j])]_vars

\* C22 witness: a processed container whose list holds a path that is not on
\* disk and, after it, a file that was discovered and linked.
C22_Witness ==
    \E e \in Expanded :
       LET files == external_files[heap[e].path]
       IN \E i \in 1..Len(files) : \E j \in (i + 1)..Len(files) :
             /\ ~Exists(files[i])
             /\ PassesGates(files[j])
             /\ files[j] \in DOMAIN store.entries
             /\ depth[store.entries[files[j]]] = depth[e] + 1
             /\ files[j] \in LinkPaths(e)

\* C23: when the loop body comes to synthesize an entry for a path p of the
\* container's list (p passes the gates, is not processed and has no store
\* entry) and the synthesis fails, because p is not a regular file or its
\* stat() raises, the step records nothing for p, handles the paths that
\* follow p in the list as it handles any other, completes the container and
\* leaves the rest of the worklist in place with the loop running.
C23_FileAccessFailureNonFatal ==
    [][\A c \in JustExtracted :
          LET e == Head(processing_stack)
              files == external_files'[c]
          IN \A i \in 1..Len(files) :
                (/\ PassesGates(files[i])
                 /\ files[i] \notin processed_paths'
                 /\ files[i] \notin DOMAIN store.entries
                 /\ ~Readable(files[i])) =>
                   /\ NothingRecorded(c, e, files[i])
                   /\ \A j \in (i + 1)..Len(files) :
                         HandledAsUsual(c, e, files[j])
                   /\ heap'[e].processed
                   /\ output_list' = Append(output_list, e)
                   /\ IsInitialSegment(Tail(processing_stack), processing_stack')
                   /\ pc' = "loop"]_vars

\* C23 witness: a finished run in which a container's list held a file whose
\* stat() raises and, after it, a file that was discovered, linked and
\* processed later in the run.
C23_Witness ==
    /\ pc = "done"
    /\ \E e \in Expanded :
          LET files == external_files[heap[e].path]
          IN \E i \in 1..Len(files) : \E j \in (i + 1)..Len(files) :
                /\ PassesGates(files[i])
                /\ StatFails(files[i])
                /\ files[j] \in DOMAIN store.entries
                /\ depth[store.entries[files[j]]] = depth[e] + 1
                /\ files[j] \in LinkPaths(e)
                /\ heap[store.entries[files[j]]].processed

\* C24: between two iterations of the loop of process_stack (and after its
\* return) the processed-path set is the set of the paths of the entries of
\* the output sequence, every entry of the output sequence has its processed
\* flag set, and no other entry has.
C24_ProcessedStateConsistent ==
    /\ processed_paths = Range(OutputPaths)
    /\ \A i \in 1..Len(output_list) : heap[output_list[i]].processed
    /\ \A e \in 1..Len(heap) : heap[e].processed => e \in Range(output_list)

\* C24 witness: the loop is between two iterations, with a container in the
\* output and an entry it discovered still waiting on the worklist.
C24_Witness ==
    /\ pc = "loop"
    /\ \E i \in 1..Len(output_list) : heap[output_list[i]].links # <<>>
    /\ \E k \in 1..Len(processing_stack) :
          /\ depth[processing_stack[k]] > 0
          /\ ~heap[processing_stack[k]].processed

\* C25: an iteration on an entry that is not a container (a leaf type or any
\* other type that is not 'blend') takes the entry off the worklist and
\* changes only the metadata and the processed flag of that entry: the
\* worklist gains nothing, the store and the registry stay as they were, no
\* entry is created, and the links of every entry stay as they were.
C25_LeafUnknownFrame ==
    [][(/\ pc = "loop"
        /\ processing_stack # <<>>
        /\ heap[Head(processing_stack)].path \notin processed_paths
        /\ heap[Head(processing_stack)].file_type # "blend") =>
          LET e == Head(processing_stack)
          IN /\ processing_stack' = Tail(processing_stack)
             /\ placed' = placed
             /\ store' = store
             /\ registry' = registry
             /\ Len(heap') = Len(heap)
             /\ \A i \in 1..Len(heap) : i # e => heap'[i] = heap[i]
             /\ heap'[e].links = heap[e].links
             /\ heap'[e] = [heap[e] EXCEPT !.metadata = heap'[e].metadata,
                                           !.processed = TRUE]
             /\ heap'[e].metadata.blend = "absent"
             /\ heap'[e].metadata.external_links = <<>>]_vars

\* C25 witness: a run in which a leaf entry and an entry of unknown type were
\* processed after a container had registered links.
C25_Witness ==
    /\ DOMAIN registry.links # {}
    /\ \E i \in 1..Len(output_list) : \E j \in 1..Len(output_list) :
          /\ heap[output_list[i]].file_type \in LEAF_TYPES
          /\ heap[output_list[i]].metadata.extract # "absent"
          /\ heap[output_list[j]].file_type = "unknown"
          /\ heap[output_list[j]].metadata.extract # "absent"

\* C26: in a run of process_stack that starts with an empty registry, an
\* empty processed-path set and entries without links, every add_link call
\* of the processor is accepted, and between two iterations the paths of the
\* links of every entry are the registry's links of the entry's path.
C26_EntryLinksMirrorRegistry ==
    /\ \A i \in 1..Len(link_calls) : link_calls[i].ret
    /\ \A e \in 1..Len(heap) : LinkPaths(e) = GetLinks(registry, heap[e].path)
    /\ \A p \in DOMAIN registry.links : \E e \in 1..Len(heap) : heap[e].path = p

\* C26 witness: a finished run over two containers that reference each
\* other, in which one of the two links was recorded and the other was not.
C26_Witness ==
    /\ pc = "done"
    /\ \E a \in Expanded, b \in Expanded :
          /\ a # b
          /\ heap[b].path \in References(a)
          /\ heap[a].path \in References(b)
          /\ heap[b].path \in LinkPaths(a)
          /\ heap[a].path \notin LinkPaths(b)

\* the permutations of 1..n
Perms(n) == {f \in [1..n -> 1..n] : \A i \in 1..n : \E j \in 1..n : f[j] = i}

\* the number of objects the scan created: the objects of depth 0
ScannedCount == Cardinality({i \in 1..Len(heap) : depth[i] = 0})

\* the state in which process_stack was called in this run, with the seed
\* worklist rearranged by the permutation f
SeedState(f) ==
    LET h == [i \in 1..ScannedCount |-> ScanCreateFileEntry(heap[i].path)]
    IN [heap |-> h,
        store |-> AddEntries(EmptyStore, h, Len(h)),
        registry |-> EmptyRegistry,
        stack |-> [i \in 1..SeedLen |-> store.entries[placed[f[i]]]],
        added |-> [i \in 1..Len(h) |-> i],
        placed |-> [i \in 1..SeedLen |-> placed[f[i]]],
        depth |-> [i \in 1..Len(h) |-> 0],
        link_calls |-> <<>>]

\* the paths of the links of the entry stored for path p in the state st of a
\* run
LinkPathsIn(st, p) ==
    IF p \notin DOMAIN st.store.entries THEN {}
    ELSE LET e == st.store.entries[p]
         IN {st.heap[st.heap[e].links[k]].path : k \in 1..Len(st.heap[e].links)}

\* C27: when process_stack has returned, the registry's edges and the link
\* set of every entry are the ones a run on the same files with the same
\* references ends with for any other order of the seed worklist.
C27_SeedOrderIndependent ==
    pc = "done" =>
        \A f \in Perms(SeedLen) :
            \A r \in ProcessStack(SeedState(f), {}, external_files,
                                  follow_external, blender_integration) :
                /\ DOMAIN r.store.entries = DOMAIN store.entries
                /\ \A p \in Universe :
                      /\ DictGet(r.registry.links, p, {}) = GetLinks(registry, p)
                      /\ LinkPathsIn(r, p) =
                            LinkPathsIn([heap |-> heap, store |-> store], p)

\* C28: after any sequence of add_entry calls, get_by_folder(f) lists exactly
\* the records get_entry currently returns for the paths in folder f, each
\* once, and get_by_type(t) exactly those of type t, each once: no record
\* that was replaced and no record twice.
C28_SecondaryIndicesConsistent ==
    /\ \A f \in {p.folder : p \in Universe} :
          LET current == {e \in StoreEntries : heap[e].path.folder = f}
          IN /\ Range(GetByFolder(store, f)) = current
             /\ Len(GetByFolder(store, f)) = Cardinality(current)
    /\ \A t \in {GetFileType(p) : p \in Universe} :
          LET current == {e \in StoreEntries : heap[e].file_type = t}
          IN /\ Range(GetByType(store, t)) = current
             /\ Len(GetByType(store, t)) = Cardinality(current)

\* C29: started on a worklist that holds the entries of the store, when
\* process_stack has returned every entry of the store (the discovered ones
\* included) has its processed flag set and is in the output sequence, and
\* stats() reports as many processed entries as entries.
C29_EverythingStoredProcessed ==
    pc # "loop" =>
        /\ \A p \in DOMAIN store.entries :
              /\ heap[store.entries[p]].processed
              /\ store.entries[p] \in Range(output_list)
        /\ ProcessedEntries(store, heap) = TotalEntries(store)

\* C29 witness: a finished run whose store holds an entry that a discovered
\* container discovered, with every entry counted as processed.
C29_Witness ==
    /\ pc = "done"
    /\ \E p \in DOMAIN store.entries : depth[store.entries[p]] = 2
    /\ TotalEntries(store) >= 3
    /\ ProcessedEntries(store, heap) = TotalEntries(store)

\* C30: in a run of process_stack whose seed entries are in the store,
\* between two iterations every registry edge (s, t) has a store entry for s
\* and one for t, s is the path of a container that was taken off the
\* worklist and processed, and every element of an entry's links is the
\* record the store holds for its path.
C30_RegistryEdgesInsideStore ==
    /\ \A s \in DOMAIN registry.links : \A t \in registry.links[s] :
          /\ s \in DOMAIN store.entries
          /\ t \in DOMAIN store.entries
          /\ s \in processed_paths
          /\ heap[store.entries[s]].file_type = "blend"
          /\ store.entries[s] \in Range(output_list)
    /\ \A t \in DOMAIN registry.reverse_links : t \in DOMAIN store.entries
    /\ \A e \in 1..Len(heap) : \A k \in 1..Len(heap[e].links) :
          /\ heap[heap[e].links[k]].path \in DOMAIN store.entries
          /\ heap[e].links[k] = store.entries[heap[heap[e].links[k]].path]

\* C30 witness: the loop is between two iterations and the registry holds an
\* edge to a scanned entry and an edge to a discovered entry that still
\* waits on the worklist.
C30_Witness ==
    /\ pc = "loop"
    /\ \E s \in DOMAIN registry.links :
          \E t \in registry.links[s], u \in registry.links[s] :
             /\ t \in DOMAIN store.entries
             /\ u \in DOMAIN store.entries
             /\ depth[store.entries[t]] = 0
             /\ depth[store.entries[u]] > 0
             /\ store.entries[u] \in Range(processing_stack)

=============================================================================
